---- MODULE Spec2Model ----
(***************************************************************************)
(* Video recommender: relational source (Django models), graph store       *)
(* (Neo4j), the RecommendationEngine singleton (model, mappings, FAISS     *)
(* index held in process memory), its persisted artifacts, the API views   *)
(* and the management commands that drive it.                              *)
(*                                                                         *)
(* Optional values (Python None / Cypher null) are sequences of length at  *)
(* most one: <<>> is None, <<x>> is the value x.                           *)
(***************************************************************************)
EXTENDS Integers, Sequences, FiniteSets, TLC

\* ------------------------------------------------------------ bounds
NumUsers == 2
NumVideos == 2
NumCats == 2
MaxLimit == 2
MaxCount == 4
MaxTrainRuns == 2
MaxWatches == 2
MaxLikes == 1
MaxProbeCount == 1
MaxNow == 8

\* ------------------------------------------------- program constants
EpochsPerSave == 30
DefaultEpochs == 30
DefaultHiddenDim == 128
StaleDays == 7
GrowthNum == 12
GrowthDen == 10
LikeScore == 2
WatchSliceLimit == 10000
SimThresholdPct == 30
DefaultWatchTime == 1

Users == 1..NumUsers
Videos == 1..NumVideos
Cats == 1..NumCats
ParentCats == {1}
HiddenDims == {DefaultHiddenDim, 64}
EpochChoices == {DefaultEpochs, 10}
\* float(request.data.get('watch_time', 1.0)): any number the client sends
WatchTimes == {DefaultWatchTime, -DefaultWatchTime}

None == <<>>
Some(x) == <<x>>
IsNone(o) == o = <<>>
Val(o) == o[1]

VARIABLES
    rel,     \* relational source of record (Django ORM rows)
    graph,   \* graph store (Neo4j nodes, relationships, properties)
    disk,    \* the four artifact files under MODEL_DIR
    eng,     \* in-memory state of the serving process's RecommendationEngine
    now,     \* wall clock, in days
    boot,    \* what the serving process found on disk when it was constructed
    last,    \* observation of the last completed operation
    runs,    \* training runs started so far (each run's random draw is its number)
    thr,     \* request threads of the serving process (position and locals)
    probe    \* inputs and result of a pure function under test

vars == <<rel, graph, disk, eng, now, boot, last, runs, thr, probe>>

\* ------------------------------------------------------------ helpers
Max2(a, b) == IF a >= b THEN a ELSE b
Min2(a, b) == IF a <= b THEN a ELSE b

RECURSIVE SetToSeq(_)
\* ascending order: the store order of the model (ids are issued in creation order)
SetToSeq(S) ==
    IF S = {} THEN <<>>
    ELSE LET m == CHOOSE x \in S : \A y \in S : x <= y
         IN <<m>> \o SetToSeq(S \ {m})

Range(s) == {s[i] : i \in 1..Len(s)}

Take(s, n) == SubSeq(s, 1, Min2(n, Len(s)))

\* ---------------------------------------------------- relational source
ParentOfCat(c) == 1

NoInterest == [score |-> 0, count |-> 0]

RelEmpty ==
    [users |-> {}, videos |-> {}, creator |-> [v \in Videos |-> 0],
     vcats |-> [v \in Videos |-> {}],
     cats |-> Cats, pcats |-> ParentCats,
     views |-> [v \in Videos |-> 0], vlikes |-> [v \in Videos |-> 0],
     watches |-> {}, likes |-> {}, follows |-> {},
     interest |-> [p \in Users \X Cats |-> NoInterest]]

\* -------------------------------------------------------- graph store
GraphEmpty ==
    [users |-> {}, videos |-> {}, cats |-> {}, pcats |-> {},
     vcats |-> [v \in Videos |-> {}],
     created_by |-> {}, belongs_to |-> {}, parent_of |-> {},
     watches |-> {}, likes |-> {}, follows |-> {},
     interested |-> [p \in Users \X Cats |-> NoInterest],
     similar |-> {},
     uemb |-> [u \in Users |-> None],
     vemb |-> [v \in Videos |-> None],
     cemb |-> [c \in Cats |-> None],
     pemb |-> [c \in ParentCats |-> None]]

\* The sync methods below take and return a record st that has at least the
\* fields rel and graph (they write the graph and the relational aggregate).

\* sync_categories_to_neo4j: MERGE every parent category, then every category
\* with its parent and the PARENT_OF relationship.
sync_categories_to_neo4j(st) ==
    LET r == st.rel
        g == st.graph
    IN [st EXCEPT !.graph =
            [g EXCEPT !.pcats = @ \cup r.pcats \cup {ParentOfCat(c) : c \in r.cats},
                      !.cats = @ \cup r.cats,
                      !.parent_of = @ \cup {<<c, ParentOfCat(c)>> : c \in r.cats}]]

\* sync_user_to_neo4j: MERGE the User node.
sync_user_to_neo4j(st, u) ==
    [st EXCEPT !.graph.users = @ \cup {u}]

\* sync_video_to_neo4j: MERGE the Video node, overwrite its category list,
\* MERGE the creator and CREATED_BY, MERGE each category and BELONGS_TO.
sync_video_to_neo4j(st, v, creator, cats) ==
    [st EXCEPT !.graph =
        [@ EXCEPT !.videos = @ \cup {v},
                  !.vcats[v] = cats,
                  !.users = @ \cup {creator},
                  !.created_by = @ \cup {<<v, creator>>},
                  !.cats = @ \cup cats,
                  !.belongs_to = @ \cup {<<v, c>> : c \in cats}]]

\* MERGE (u)-[i:INTERESTED_IN]->(c) ON CREATE SET score = w, count = 1
\*                                  ON MATCH SET score += w, count += 1
BumpInterest(f, u, cs, w) ==
    [p \in DOMAIN f |->
        IF p[1] = u /\ p[2] \in cs
        THEN [score |-> f[p].score + w, count |-> f[p].count + 1]
        ELSE f[p]]

\* The WATCHES statement with CREATE in place of MERGE.
CreateWatch(ws, u, v, w, ts) ==
    ws \cup {<<u, v, w, ts>>}

\* MERGE (u)-[w:WATCHES]->(v) SET w.watch_time, w.timestamp: one edge per
\* (u, v), its two properties overwritten.
MergeWatch(ws, u, v, w, ts) ==
    {e \in ws : ~(e[1] = u /\ e[2] = v)} \cup {<<u, v, w, ts>>}

\* sync_watch_to_neo4j: the Cypher statement (no rows, so no effect, unless
\* both endpoint nodes exist; interest only for category nodes that exist),
\* then the relational aggregate over the video's relational categories.
sync_watch_to_neo4j(st, u, v, w, ts) ==
    LET g == st.graph
        r == st.rel
        g1 == IF u \in g.users /\ v \in g.videos
              THEN [g EXCEPT !.watches = MergeWatch(@, u, v, w, ts),
                             !.interested =
                                 BumpInterest(@, u, g.vcats[v] \cap g.cats, w)]
              ELSE g
        r1 == [r EXCEPT !.interest = BumpInterest(@, u, r.vcats[v], w)]
    IN [st EXCEPT !.rel = r1, !.graph = g1]

\* sync_like_to_neo4j: as sync_watch_to_neo4j with the fixed score 2.0.
sync_like_to_neo4j(st, u, v) ==
    LET g == st.graph
        r == st.rel
        g1 == IF u \in g.users /\ v \in g.videos
              THEN [g EXCEPT !.likes = @ \cup {<<u, v>>},
                             !.interested =
                                 BumpInterest(@, u, g.vcats[v] \cap g.cats, LikeScore)]
              ELSE g
        r1 == [r EXCEPT !.interest = BumpInterest(@, u, r.vcats[v], LikeScore)]
    IN [st EXCEPT !.rel = r1, !.graph = g1]

\* sync_follow_to_neo4j: MERGE FOLLOWS when both users exist.
sync_follow_to_neo4j(st, a, b) ==
    IF a \in st.graph.users /\ b \in st.graph.users
    THEN [st EXCEPT !.graph.follows = @ \cup {<<a, b>>}]
    ELSE st

\* compute_video_similarities: for each pair v1 < v2, Jaccard overlap of the
\* category lists; the edge is merged (one per unordered pair) when the
\* overlap is at least 0.3. An empty union gives NaN, which fails the test.
CatSimOk(A, B) ==
    /\ A \cup B # {}
    /\ Cardinality(A \cap B) * 100 >= SimThresholdPct * Cardinality(A \cup B)

compute_video_similarities(st) ==
    LET g == st.graph
        hit == {p \in g.videos \X g.videos :
                    p[1] < p[2] /\ CatSimOk(g.vcats[p[1]], g.vcats[p[2]])}
        new == {<<p[1], p[2], Cardinality(g.vcats[p[1]] \cap g.vcats[p[2]]),
                  Cardinality(g.vcats[p[1]] \cup g.vcats[p[2]])>> : p \in hit}
    IN [st EXCEPT !.graph.similar =
            {e \in @ : <<e[1], e[2]>> \notin hit} \cup new]

RECURSIVE SyncUsers(_, _)
SyncUsers(st, S) ==
    IF S = {} THEN st
    ELSE LET u == CHOOSE x \in S : TRUE
         IN SyncUsers(sync_user_to_neo4j(st, u), S \ {u})

RECURSIVE SyncVideos(_, _)
SyncVideos(st, S) ==
    IF S = {} THEN st
    ELSE LET v == CHOOSE x \in S : TRUE
         IN SyncVideos(sync_video_to_neo4j(st, v, st.rel.creator[v], st.rel.vcats[v]),
                       S \ {v})

RECURSIVE SyncWatches(_, _)
SyncWatches(st, S) ==
    IF S = {} THEN st
    ELSE LET w == CHOOSE x \in S : TRUE
         IN SyncWatches(sync_watch_to_neo4j(st, w[1], w[2], w[3], w[4]), S \ {w})

RECURSIVE SyncLikes(_, _)
SyncLikes(st, S) ==
    IF S = {} THEN st
    ELSE LET l == CHOOSE x \in S : TRUE
         IN SyncLikes(sync_like_to_neo4j(st, l[1], l[2]), S \ {l})

RECURSIVE SyncFollows(_, _)
SyncFollows(st, S) ==
    IF S = {} THEN st
    ELSE LET f == CHOOSE x \in S : TRUE
         IN SyncFollows(sync_follow_to_neo4j(st, f[1], f[2]), S \ {f})

\* Watch.objects.all()[:10000]: the first rows in default order.
WatchSlice(ws) ==
    IF Cardinality(ws) <= WatchSliceLimit THEN ws
    ELSE CHOOSE S \in SUBSET ws : Cardinality(S) = WatchSliceLimit

\* The bulk sync with the interactions synced before the nodes.
bulk_sync_interactions_first(st) ==
    LET s1 == sync_categories_to_neo4j(st)
        s2 == SyncWatches(s1, WatchSlice(s1.rel.watches))
        s3 == SyncLikes(s2, s2.rel.likes)
        s4 == SyncFollows(s3, s3.rel.follows)
        s5 == SyncUsers(s4, s4.rel.users)
        s6 == SyncVideos(s5, s5.rel.videos)
    IN compute_video_similarities(s6)

\* bulk_sync_all_data_to_neo4j: categories, users, videos, the watch slice,
\* likes, follows, then the similarity computation.
bulk_sync_all_data_to_neo4j(st) ==
    LET s1 == sync_categories_to_neo4j(st)
        s2 == SyncUsers(s1, s1.rel.users)
        s3 == SyncVideos(s2, s2.rel.videos)
        s4 == SyncWatches(s3, WatchSlice(s3.rel.watches))
        s5 == SyncLikes(s4, s4.rel.likes)
        s6 == SyncFollows(s5, s5.rel.follows)
    IN compute_video_similarities(s6)

\* ------------------------------------------------ engine: construction
NoMappings == [user |-> <<>>, video |-> <<>>, category |-> <<>>, parent_category |-> <<>>]

EngineNew ==
    [model |-> None, node_mappings |-> NoMappings, data |-> None,
     model_metadata |-> None, faiss_index |-> None, video_ids |-> <<>>]

DiskEmpty ==
    [model_pt |-> None, metadata_pkl |-> None, faiss_bin |-> None, video_ids_pkl |-> None]

\* _load_model_if_exists: only when both files exist; a state dict that does
\* not fit the metadata's hidden_dim raises, and the handler resets the model.
load_model_if_exists(e, d) ==
    IF ~IsNone(d.model_pt) /\ ~IsNone(d.metadata_pkl)
    THEN LET md == Val(d.metadata_pkl)
             e1 == [e EXCEPT !.model_metadata = d.metadata_pkl]
         IN IF Val(d.model_pt).hidden_dim = md.hidden_dim
            THEN [e1 EXCEPT !.model = d.model_pt,
                            !.node_mappings = md.node_mappings]
            ELSE [e1 EXCEPT !.model = None]
    ELSE e

\* _load_faiss_index_if_exists: only when both files exist.
load_faiss_index_if_exists(e, d) ==
    IF ~IsNone(d.faiss_bin) /\ ~IsNone(d.video_ids_pkl)
    THEN [e EXCEPT !.faiss_index = d.faiss_bin, !.video_ids = Val(d.video_ids_pkl)]
    ELSE e

\* RecommendationEngine.__init__
EngineInit(d) == load_faiss_index_if_exists(load_model_if_exists(EngineNew, d), d)

\* What one operation did, reset when it starts.
NewObs ==
    [err |-> FALSE, trained |-> 0, epochs |-> 0, rebuilt |-> 0, searched |-> FALSE,
     fallback |-> FALSE, ret |-> <<>>]

\* An operation runs on a world w: the stores, the files, the clock, the
\* engine instance it runs in, the order in which the graph store returns rows
\* that compare equal (tie: by ascending id or by descending id), and what the
\* operation has done so far.
World(r, g, d, e, t, n) ==
    [rel |-> r, graph |-> g, disk |-> d, eng |-> e, now |-> t, runs |-> n,
     tie |-> TRUE, obs |-> NewObs]

Raise(w) == [w EXCEPT !.obs.err = TRUE]

\* ---------------------------------------------------- engine: staleness
\* The rule with growth of exactly 20% counted as stale (>= for >).
NeedsTrainingGe(hasModel, lastTrained, t, cu, cv, tu, tv) ==
    IF ~hasModel THEN TRUE
    ELSE IF ~IsNone(lastTrained) /\ t - Val(lastTrained) > StaleDays THEN TRUE
    ELSE cu * GrowthDen >= tu * GrowthNum \/ cv * GrowthDen >= tv * GrowthNum

\* check_model_needs_training as a function of what it reads. trained * 1.2 is
\* a float product; the comparison with an integer count agrees with the
\* exact one (cu * 10 > tu * 12) for every count.
NeedsTraining(hasModel, lastTrained, t, cu, cv, tu, tv) ==
    IF ~hasModel THEN TRUE
    ELSE IF ~IsNone(lastTrained) /\ t - Val(lastTrained) > StaleDays THEN TRUE
    ELSE cu * GrowthDen > tu * GrowthNum \/ cv * GrowthDen > tv * GrowthNum

LastTrainedOf(e) ==
    IF IsNone(e.model_metadata) THEN None
    ELSE Some(Val(e.model_metadata).last_trained)

check_model_needs_training(w) ==
    NeedsTraining(~IsNone(w.eng.model), LastTrainedOf(w.eng), w.now,
                  Cardinality(w.graph.users), Cardinality(w.graph.videos),
                  Len(w.eng.node_mappings.user), Len(w.eng.node_mappings.video))

\* ----------------------------------------------------- engine: training
\* load_graph_from_neo4j: node ids per type in read order (the mapping is the
\* position in that order), then the edges whose endpoints are mapped.
load_graph_from_neo4j(w) ==
    LET g == w.graph
        nm == [user |-> SetToSeq(g.users), video |-> SetToSeq(g.videos),
               category |-> SetToSeq(g.cats), parent_category |-> SetToSeq(g.pcats)]
        snap == [users |-> g.users, videos |-> g.videos,
                 cats |-> g.cats, pcats |-> g.pcats,
                 watches |-> {<<e[1], e[2]>> : e \in g.watches}]
    IN [w EXCEPT !.eng.node_mappings = nm, !.eng.data = Some(snap)]

\* self.node_mappings[type][id]: the 0-based position of id in the read order;
\* -1 stands for the KeyError of an id that is not a key.
IndexIn(ids, id) ==
    IF id \in Range(ids) THEN (CHOOSE i \in 1..Len(ids) : ids[i] = id) - 1 ELSE -1

\* The loop over an edge list with the membership test left out.
EdgeIndicesUnguarded(src, dst, edges) ==
    {<<IndexIn(src, e[1]), IndexIn(dst, e[2])>> : e \in edges}

\* The loop over an edge list (lines 424-431): an edge is kept, as a pair of
\* indices, when both its ids are keys of the mappings of its node types.
EdgeIndices(src, dst, edges) ==
    {<<IndexIn(src, e[1]), IndexIn(dst, e[2])>> :
        e \in {x \in edges : x[1] \in Range(src) /\ x[2] \in Range(dst)}}

\* The embedding a run computes for a node: a direction that depends on the
\* node and on the weights, which are the run's random draw.
UserVal(u, seed) == (u + seed) % 3
VideoVal(v, seed) == (v * seed) % 3

Emb(d, x) == Some([dim |-> d, val |-> x])

\* _train_epoch steps the optimizer only for interactions of the current
\* graph whose both endpoints are in the mapping.
HasTrainableInteraction(w) ==
    \E e \in w.graph.watches :
        /\ e[1] \in Range(w.eng.node_mappings.user)
        /\ e[2] \in Range(w.eng.node_mappings.video)

\* _build_faiss_index: clear the id list, read every video with an embedding
\* (appending its id), return if there is none; stacking vectors of unequal
\* length raises; otherwise a new index replaces the old one.
EmbeddedVideos(g) == SetToSeq({v \in g.videos : ~IsNone(g.vemb[v])})

\* The rows of video_embeddings: the vector read for each id, in read order.
VectorsOf(g, rows) ==
    [i \in 1..Len(rows) |-> [of |-> rows[i], val |-> Val(g.vemb[rows[i]]).val]]

DimsOf(g, rows) == {Val(g.vemb[rows[i]]).dim : i \in 1..Len(rows)}

\* faiss.IndexFlatIP(dimension): an index that holds no vector yet.
IndexFlatIP(d) == [d |-> d, vecs |-> <<>>]

\* index.add(x): the vectors are appended.
IndexAdd(index, vecs) == [index EXCEPT !.vecs = @ \o vecs]

build_faiss_index(w) ==
    LET g == w.graph
        rows == EmbeddedVideos(g)
        w1 == [w EXCEPT !.eng.video_ids = rows]
        dims == DimsOf(g, rows)
    IN IF rows = <<>> THEN w1
       ELSE IF Cardinality(dims) > 1 THEN Raise(w1)
       ELSE [w1 EXCEPT
               !.eng.faiss_index =
                   Some(IndexAdd(IndexFlatIP(CHOOSE x \in dims : TRUE),
                                 VectorsOf(g, rows))),
               !.obs.rebuilt = @ + 1]

\* _extract_and_store_embeddings: one embedding per mapped node of each type,
\* written to the node (MATCH ... SET) by store_embeddings, then the index is
\* rebuilt.
store_embeddings(w) ==
    LET m == Val(w.eng.model)
        nm == w.eng.node_mappings
        g == w.graph
        g1 == [g EXCEPT
                !.uemb = [u \in Users |->
                            IF u \in Range(nm.user) /\ u \in g.users
                            THEN Emb(m.hidden_dim, UserVal(u, m.weights)) ELSE @[u]],
                !.vemb = [v \in Videos |->
                            IF v \in Range(nm.video) /\ v \in g.videos
                            THEN Emb(m.hidden_dim, VideoVal(v, m.weights)) ELSE @[v]],
                !.cemb = [c \in Cats |->
                            IF c \in Range(nm.category) /\ c \in g.cats
                            THEN Emb(m.hidden_dim, m.weights) ELSE @[c]],
                !.pemb = [c \in ParentCats |->
                            IF c \in Range(nm.parent_category) /\ c \in g.pcats
                            THEN Emb(m.hidden_dim, m.weights) ELSE @[c]]]
    IN [w EXCEPT !.graph = g1]

extract_and_store_embeddings(w) == build_faiss_index(store_embeddings(w))

TotalEpochsOf(e) ==
    IF IsNone(e.model_metadata) THEN 0 ELSE Val(e.model_metadata).total_epochs

\* _save_model: the state dict is written to MODEL_PATH; the metadata is
\* rebuilt in memory and is not written to METADATA_PATH.
save_model(w) ==
    [w EXCEPT
        !.disk.model_pt = w.eng.model,
        !.eng.model_metadata =
            Some([hidden_dim |-> Val(w.eng.model).hidden_dim,
                  node_mappings |-> w.eng.node_mappings,
                  last_trained |-> w.now,
                  total_epochs |-> TotalEpochsOf(w.eng) + EpochsPerSave])]

\* _save_faiss_index: both files, only when an index is held.
save_faiss_index(w) ==
    IF IsNone(w.eng.faiss_index) THEN w
    ELSE [w EXCEPT !.disk.faiss_bin = w.eng.faiss_index,
                   !.disk.video_ids_pkl = Some(w.eng.video_ids)]

\* train_gnn_and_update_embeddings(num_epochs, hidden_dim). The run's random
\* draw (initial weights, negative samples, dropout) is named by its number.
\* The run up to the epochs (lines 542-555).
train_epochs(w, num_epochs, hidden_dim) ==
    LET w0 == [w EXCEPT !.obs.trained = @ + 1, !.obs.epochs = @ + num_epochs,
                        !.runs = @ + 1]
        seed == w0.runs
        w1 == IF IsNone(w0.eng.data) THEN load_graph_from_neo4j(w0) ELSE w0
        w2 == IF IsNone(w1.eng.model)
              THEN [w1 EXCEPT !.eng.model =
                        Some([hidden_dim |-> hidden_dim, weights |-> seed])]
              ELSE w1
    IN IF num_epochs > 0 /\ HasTrainableInteraction(w2)
       THEN [w2 EXCEPT !.eng.model[1].weights = seed]
       ELSE w2

train_gnn_and_update_embeddings(w, num_epochs, hidden_dim) ==
    LET w4 == extract_and_store_embeddings(train_epochs(w, num_epochs, hidden_dim))
    IN IF w4.obs.err THEN w4
       ELSE save_faiss_index(save_model(w4))

\* ensure_model_trained with a missing index treated like a stale model.
ensure_model_trained_eager(w, force) ==
    IF force \/ check_model_needs_training(w) \/ IsNone(w.eng.faiss_index)
    THEN train_gnn_and_update_embeddings(w, DefaultEpochs, DefaultHiddenDim)
    ELSE w

\* ensure_model_trained(force_retrain)
ensure_model_trained(w, force) ==
    IF force \/ check_model_needs_training(w)
    THEN train_gnn_and_update_embeddings(w, DefaultEpochs, DefaultHiddenDim)
    ELSE IF IsNone(w.eng.faiss_index) THEN build_faiss_index(w)
    ELSE w

\* ------------------------------------------------ engine: recommending
WatchCount(g, v) == Cardinality({e \in g.watches : e[2] = v})

WatchedBy(g, u) == {e[2] : e \in {x \in g.watches : x[1] = u}}

RECURSIVE SortByCountDesc(_, _, _)
\* ORDER BY watch_count DESC; the order of rows of equal count is the store's.
SortByCountDesc(g, S, asc) ==
    IF S = {} THEN <<>>
    ELSE LET m == CHOOSE x \in S :
                    \A y \in S : \/ WatchCount(g, x) > WatchCount(g, y)
                                 \/ (WatchCount(g, x) = WatchCount(g, y)
                                     /\ IF asc THEN x <= y ELSE x >= y)
         IN <<m>> \o SortByCountDesc(g, S \ {m}, asc)

\* The popularity query without its LIMIT clause.
get_popular_videos_unlimited(g, limit, asc) ==
    SortByCountDesc(g, {v \in g.videos : WatchCount(g, v) > 0}, asc)

\* _get_popular_videos: videos that have a WATCHES edge, by count, LIMIT limit.
get_popular_videos(g, limit, asc) ==
    Take(SortByCountDesc(g, {v \in g.videos : WatchCount(g, v) > 0}, asc), limit)

RECURSIVE SortByKeyDesc(_, _, _)
\* ORDER BY key DESC over the rows S; rows of equal key in the store's order.
SortByKeyDesc(key, S, asc) ==
    IF S = {} THEN <<>>
    ELSE LET m == CHOOSE x \in S :
                    \A y \in S : \/ key[x] > key[y]
                                 \/ (key[x] = key[y] /\ IF asc THEN x <= y ELSE x >= y)
         IN <<m>> \o SortByKeyDesc(key, S \ {m}, asc)

\* The rows of the two MATCH clauses: (creator, v) with u FOLLOWS creator and
\* v CREATED_BY creator.
FollowedRows(g, u) ==
    {r \in g.users \X g.videos :
        /\ u \in g.users
        /\ <<u, r[1]>> \in g.follows
        /\ <<r[2], r[1]>> \in g.created_by}

\* The query of get_recommendations_from_followed without its WHERE NOT
\* exists((u)-[:WATCHES]->(v)).
get_followed_including_watched(g, u, limit, asc) ==
    LET rows == FollowedRows(g, u)
        vs == {r[2] : r \in rows}
        watch_count == [v \in vs |->
                           Cardinality({r \in rows : r[2] = v}) * WatchCount(g, v)]
    IN Take(SortByKeyDesc(watch_count, vs, asc), limit)

\* get_recommendations_from_followed(user_id, limit): the rows whose video u
\* has no WATCHES edge to; WITH v, then count(w) per v over the OPTIONAL MATCH
\* of its WATCHES edges (one per input row of v and edge, 0 for a video
\* without edges); ORDER BY watch_count DESC LIMIT limit.
get_recommendations_from_followed(g, u, limit, asc) ==
    LET rows == {r \in FollowedRows(g, u) : r[2] \notin WatchedBy(g, u)}
        vs == {r[2] : r \in rows}
        watch_count == [v \in vs |->
                           Cardinality({r \in rows : r[2] = v}) * WatchCount(g, v)]
    IN Take(SortByKeyDesc(watch_count, vs, asc), limit)

\* Inner product of two unit vectors as a function of their directions.
Score(a, b) == IF a >= b THEN b - a ELSE a - b

RECURSIVE RankPositions(_, _, _)
\* Positions (0-based) by descending score, the lower position first on a tie.
RankPositions(vecs, q, P) ==
    IF P = {} THEN <<>>
    ELSE LET m == CHOOSE i \in P :
                    \A j \in P : \/ Score(vecs[i + 1].val, q) > Score(vecs[j + 1].val, q)
                                 \/ (Score(vecs[i + 1].val, q) = Score(vecs[j + 1].val, q)
                                     /\ i <= j)
         IN <<m>> \o RankPositions(vecs, q, P \ {m})

\* IndexFlatIP.search(x, k): the k best positions, padded with -1 when the
\* index holds fewer than k vectors.
faiss_search(index, q, k) ==
    LET n == Len(index.vecs)
        ranked == RankPositions(index.vecs, q, 0..(n - 1))
    IN [i \in 1..k |-> IF i <= n THEN ranked[i] ELSE -1]

\* The loop over indices[0]: self.video_ids[idx] after the test
\* idx < len(self.video_ids) (a negative idx counts from the end of the list
\* and raises on an empty one); unwatched ids are appended until limit.
RECURSIVE FilterLoop(_, _, _, _, _, _)
FilterLoop(indices, i, ids, watched, limit, acc) ==
    IF i > Len(indices) THEN [err |-> FALSE, recs |-> acc]
    ELSE LET idx == indices[i]
         IN IF idx < Len(ids)
            THEN IF idx < 0 /\ Len(ids) + idx < 0
                 THEN [err |-> TRUE, recs |-> acc]
                 ELSE LET vid == IF idx >= 0 THEN ids[idx + 1]
                                 ELSE ids[Len(ids) + idx + 1]
                      IN IF vid \notin watched
                         THEN IF Len(acc) + 1 >= limit
                              THEN [err |-> FALSE, recs |-> Append(acc, vid)]
                              ELSE FilterLoop(indices, i + 1, ids, watched, limit,
                                              Append(acc, vid))
                         ELSE FilterLoop(indices, i + 1, ids, watched, limit, acc)
            ELSE FilterLoop(indices, i + 1, ids, watched, limit, acc)

HasEmbedding(g, u) == u \in g.users /\ ~IsNone(g.uemb[u])

\* get_recommendations, from the embedding fetch on (lines 683-720).
RecommendFromIndex(w, u, limit) ==
    IF ~HasEmbedding(w.graph, u)
    THEN [w EXCEPT !.obs.fallback = TRUE,
                   !.obs.ret = get_popular_videos(w.graph, limit, w.tie)]
    ELSE LET w1 == IF IsNone(w.eng.faiss_index) THEN build_faiss_index(w) ELSE w
             q == Val(w1.graph.uemb[u])
         IN IF w1.obs.err THEN w1
            ELSE IF IsNone(w1.eng.faiss_index) THEN Raise(w1)
            ELSE IF Val(w1.eng.faiss_index).d # q.dim THEN Raise(w1)
            ELSE LET indices == faiss_search(Val(w1.eng.faiss_index), q.val, 2 * limit)
                     r == FilterLoop(indices, 1, w1.eng.video_ids,
                                     WatchedBy(w1.graph, u), limit, <<>>)
                     w2 == [w1 EXCEPT !.obs.searched = TRUE]
                 IN IF r.err THEN Raise(w2)
                    ELSE [w2 EXCEPT !.obs.ret = r.recs]

\* get_recommendations(user_id, limit)
get_recommendations(w, u, limit) ==
    LET w1 == IF IsNone(w.eng.faiss_index)
              THEN ensure_model_trained(w, FALSE) ELSE w
    IN IF w1.obs.err THEN w1 ELSE RecommendFromIndex(w1, u, limit)

\* ------------------------------------------------------------ API views
\* register: the row, the post_save receiver's sync, the view's own sync.
ViewRegister(st, u) ==
    LET s1 == [st EXCEPT !.rel.users = @ \cup {u}]
    IN sync_user_to_neo4j(sync_user_to_neo4j(s1, u), u)

\* VideoViewSet.perform_create: the row (the post_save receiver syncs it before
\* the categories are set), the categories, then the view's own sync.
ViewCreateVideo(st, v, creator, cats) ==
    LET s1 == [st EXCEPT !.rel.videos = @ \cup {v}, !.rel.creator[v] = creator]
        s2 == sync_video_to_neo4j(s1, v, creator, {})
        s3 == [s2 EXCEPT !.rel.vcats[v] = cats]
    IN sync_video_to_neo4j(s3, v, creator, cats)

\* VideoViewSet update / partial_update (ModelViewSet): the serializer sets
\* the writable categories field; the save is not a creation, so the receiver
\* does not sync and the graph keeps the list of the last sync.
ViewUpdateVideo(st, v, cats) ==
    [st EXCEPT !.rel.vcats[v] = cats]

\* VideoViewSet.watch: the row, stamped with the time of its creation (and the
\* post_save receiver's sync), the view counter, then the view's own sync.
ViewWatch(st, u, v, wt) ==
    LET s1 == [st EXCEPT !.rel.watches = @ \cup {<<u, v, wt, st.now>>}]
        s2 == sync_watch_to_neo4j(s1, u, v, wt, st.now)
        s3 == [s2 EXCEPT !.rel.views[v] = @ + 1]
    IN sync_watch_to_neo4j(s3, u, v, wt, st.now)

\* WatchAdmin's delete view: the row is deleted; no receiver listens to
\* post_delete, so the graph keeps the edge and the interest.
AdminDeleteWatchRow(st, u, v) ==
    [st EXCEPT !.rel.watches = {e \in @ : ~(e[1] = u /\ e[2] = v)}]

\* VideoViewSet.like: the row (and the post_save receiver's sync); saving the
\* counter then raises (save() takes no updated_fields), so the counter is
\* not stored and the view's own sync is not reached.
ViewLike(st, u, v) ==
    LET s1 == [st EXCEPT !.rel.likes = @ \cup {<<u, v>>}]
    IN sync_like_to_neo4j(s1, u, v)

\* VideoViewSet.unlike: the row is deleted and, if there was one, the counter
\* is lowered (not below zero); the graph is not touched.
ViewUnlike(st, u, v) ==
    IF <<u, v>> \in st.rel.likes
    THEN [st EXCEPT !.rel.likes = @ \ {<<u, v>>},
                    !.rel.vlikes[v] = Max2(0, @ - 1)]
    ELSE st

\* UserViewSet.follow: refused for oneself; get_or_create of the row; a new
\* row is synced by the post_save receiver and then by the view.
ViewFollow(st, a, b) ==
    IF a = b \/ <<a, b>> \in st.rel.follows THEN st
    ELSE LET s1 == [st EXCEPT !.rel.follows = @ \cup {<<a, b>>}]
         IN sync_follow_to_neo4j(sync_follow_to_neo4j(s1, a, b), a, b)

\* UserViewSet.unfollow with the FOLLOWS edge deleted as well.
ViewUnfollowAndEdge(st, a, b) ==
    [st EXCEPT !.rel.follows = @ \ {<<a, b>>},
               !.graph.follows = @ \ {<<a, b>>}]

\* UserViewSet.unfollow: the row is deleted; the graph is not touched.
ViewUnfollow(st, a, b) ==
    [st EXCEPT !.rel.follows = @ \ {<<a, b>>}]

MaxInterestCount(st) ==
    LET cs == {st.rel.interest[p].count : p \in Users \X Cats}
              \cup {st.graph.interested[p].count : p \in Users \X Cats}
    IN CHOOSE m \in cs : \A x \in cs : x <= m

\* ---------------------------------------------------------------- actions
Here == World(rel, graph, disk, eng, now, runs)

\* The world of a management command: its own process, so its own engine,
\* constructed from the files.
Cli == World(rel, graph, disk, EngineInit(disk), now, runs)

\* What the last completed operation was called with, what held when it
\* started, and what it did.
NoLast ==
    [op |-> "none", u |-> 0, limit |-> 0, force |-> FALSE, stale |-> FALSE,
     hadIndex |-> FALSE, hadEmb |-> FALSE, first |-> FALSE,
     total0 |-> 0, total1 |-> 0, bulk |-> FALSE, hidden_dim |-> 0, obs |-> NewObs]

Observe(name, u, limit, force, w0, w1) ==
    [op |-> name, u |-> u, limit |-> limit, force |-> force,
     stale |-> check_model_needs_training(w0),
     hadIndex |-> ~IsNone(w0.eng.faiss_index),
     hadEmb |-> IF u \in Users THEN HasEmbedding(w0.graph, u) ELSE FALSE,
     first |-> ~boot.served,
     total0 |-> TotalEpochsOf(w0.eng),
     total1 |-> TotalEpochsOf(w1.eng),
     bulk |-> FALSE,
     hidden_dim |-> 0,
     obs |-> w1.obs]

WithinBounds(w) ==
    /\ w.runs <= MaxTrainRuns
    /\ MaxInterestCount(w) <= MaxCount
    /\ Cardinality(w.rel.watches) <= MaxWatches
    /\ Cardinality(w.rel.likes) <= MaxLikes
    /\ \A v \in Videos : w.rel.views[v] <= MaxCount

Register(u) ==
    /\ u = Cardinality(rel.users) + 1
    /\ u \in Users
    /\ \E w \in {ViewRegister(Here, u)} :
          /\ rel' = w.rel
          /\ graph' = w.graph
    /\ last' = NoLast
    /\ UNCHANGED <<disk, eng, now, boot, runs, thr, probe>>

CreateVideo(v, creator, cats) ==
    /\ v = Cardinality(rel.videos) + 1
    /\ v \in Videos
    /\ creator \in rel.users
    /\ \E w \in {ViewCreateVideo(Here, v, creator, cats)} :
          /\ rel' = w.rel
          /\ graph' = w.graph
    /\ last' = NoLast
    /\ UNCHANGED <<disk, eng, now, boot, runs, thr, probe>>

Watch(u, v, wt) ==
    /\ u \in rel.users
    /\ v \in rel.videos
    /\ \A e \in rel.watches : ~(e[1] = u /\ e[2] = v)
    /\ \E w \in {ViewWatch(Here, u, v, wt)} :
          /\ WithinBounds(w)
          /\ rel' = w.rel
          /\ graph' = w.graph
    /\ last' = NoLast
    /\ UNCHANGED <<disk, eng, now, boot, runs, thr, probe>>

AdminDeleteWatch(u, v) ==
    /\ \E e \in rel.watches : e[1] = u /\ e[2] = v
    /\ \E w \in {AdminDeleteWatchRow(Here, u, v)} :
          rel' = w.rel
    /\ last' = NoLast
    /\ UNCHANGED <<graph, disk, eng, now, boot, runs, thr, probe>>

Like(u, v) ==
    /\ u \in rel.users
    /\ v \in rel.videos
    /\ <<u, v>> \notin rel.likes
    /\ \E w \in {ViewLike(Here, u, v)} :
          /\ WithinBounds(w)
          /\ rel' = w.rel
          /\ graph' = w.graph
    /\ last' = NoLast
    /\ UNCHANGED <<disk, eng, now, boot, runs, thr, probe>>

Unlike(u, v) ==
    /\ <<u, v>> \in rel.likes
    /\ \E w \in {ViewUnlike(Here, u, v)} :
          rel' = w.rel
    /\ last' = NoLast
    /\ UNCHANGED <<graph, disk, eng, now, boot, runs, thr, probe>>

Follow(a, b) ==
    /\ a \in rel.users
    /\ b \in rel.users
    /\ a # b
    /\ <<a, b>> \notin rel.follows
    /\ \E w \in {ViewFollow(Here, a, b)} :
          /\ rel' = w.rel
          /\ graph' = w.graph
    /\ last' = NoLast
    /\ UNCHANGED <<disk, eng, now, boot, runs, thr, probe>>

Unfollow(a, b) ==
    /\ <<a, b>> \in rel.follows
    /\ \E w \in {ViewUnfollow(Here, a, b)} :
          /\ rel' = w.rel
          /\ graph' = w.graph
    /\ last' = NoLast
    /\ UNCHANGED <<disk, eng, now, boot, runs, thr, probe>>

\* sync_to_neo4j without options: Command.handle
SyncCommand ==
    /\ \E w \in {bulk_sync_all_data_to_neo4j(Cli)} :
          /\ WithinBounds(w)
          /\ rel' = w.rel
          /\ graph' = w.graph
          /\ last' = Observe("sync_to_neo4j", 0, 0, FALSE, Cli, w)
    /\ UNCHANGED <<disk, eng, now, boot, runs, thr, probe>>

\* sync_to_neo4j --compute-similarities: Command.handle
ComputeSimilaritiesCommand ==
    /\ \E w \in {compute_video_similarities(Cli)} :
          /\ graph' = w.graph
          /\ last' = Observe("compute_similarities", 0, 0, FALSE, Cli, w)
    /\ UNCHANGED <<rel, disk, eng, now, boot, runs, thr, probe>>

UpdateVideo(v, cats) ==
    /\ v \in rel.videos
    /\ cats # rel.vcats[v]
    /\ \E w \in {ViewUpdateVideo(Here, v, cats)} :
          rel' = w.rel
    /\ last' = NoLast
    /\ UNCHANGED <<graph, disk, eng, now, boot, runs, thr, probe>>

GetRecommendations(u, limit, tie) ==
    /\ \E w \in {get_recommendations([Here EXCEPT !.tie = tie], u, limit)} :
          /\ WithinBounds(w)
          /\ runs' = w.runs
          /\ graph' = w.graph
          /\ disk' = w.disk
          /\ eng' = w.eng
          /\ last' = Observe("get_recommendations", u, limit, FALSE, Here, w)
    /\ boot' = [boot EXCEPT !.served = TRUE]
    /\ UNCHANGED <<rel, now, thr, probe>>

\* get_following_feed: the engine's list for request.user (the response
\* serializes the relational rows of these ids in this order).
GetFollowingFeed(u, limit, tie) ==
    /\ u \in rel.users
    /\ last' = [NoLast EXCEPT !.op = "get_following_feed", !.u = u, !.limit = limit,
                              !.obs.ret = get_recommendations_from_followed(
                                              graph, u, limit, tie)]
    /\ UNCHANGED <<rel, graph, disk, eng, now, boot, runs, thr, probe>>

EnsureModelTrained(force) ==
    /\ \E w \in {ensure_model_trained(Here, force)} :
          /\ WithinBounds(w)
          /\ runs' = w.runs
          /\ graph' = w.graph
          /\ disk' = w.disk
          /\ eng' = w.eng
          /\ last' = Observe("ensure_model_trained", 0, 0, force, Here, w)
    /\ UNCHANGED <<rel, now, boot, thr, probe>>

\* Command.handle with the bulk sync before the training, as the help text
\* of --bulk-sync words it.
train_gnn_sync_first(w, epochs, hidden_dim, force, bulk) ==
    IF ~force /\ ~check_model_needs_training(w) THEN w
    ELSE LET w0 == IF bulk THEN bulk_sync_all_data_to_neo4j(w) ELSE w
         IN train_gnn_and_update_embeddings(w0, epochs, hidden_dim)

\* train_gnn_and_update_embeddings(num_epochs, hidden_dim) called on the
\* serving process's engine object.
TrainGnnAndUpdateEmbeddings(epochs, hidden_dim) ==
    /\ \E w \in {train_gnn_and_update_embeddings(Here, epochs, hidden_dim)} :
          /\ WithinBounds(w)
          /\ runs' = w.runs
          /\ graph' = w.graph
          /\ disk' = w.disk
          /\ eng' = w.eng
          /\ last' = [Observe("train_gnn_and_update_embeddings", 0, 0, FALSE, Here, w)
                         EXCEPT !.hidden_dim = hidden_dim]
    /\ UNCHANGED <<rel, now, boot, thr, probe>>

\* train_gnn: Command.handle
train_gnn(w, epochs, hidden_dim, force, bulk) ==
    IF ~force /\ ~check_model_needs_training(w) THEN w
    ELSE LET w1 == train_gnn_and_update_embeddings(w, epochs, hidden_dim)
         IN IF w1.obs.err THEN w1
            ELSE IF bulk THEN bulk_sync_all_data_to_neo4j(w1)
            ELSE w1

TrainCommand(epochs, hidden_dim, force, bulk) ==
    /\ \E w \in {train_gnn(Cli, epochs, hidden_dim, force, bulk)} :
          /\ WithinBounds(w)
          /\ runs' = w.runs
          /\ rel' = w.rel
          /\ graph' = w.graph
          /\ disk' = w.disk
          /\ last' = [Observe("train_gnn", 0, 0, force, Cli, w) EXCEPT !.bulk = bulk]
    /\ UNCHANGED <<eng, now, boot, thr, probe>>

\* rebuild_faiss: Command.handle
rebuild_faiss(w) ==
    LET w1 == build_faiss_index(w)
    IN IF w1.obs.err THEN w1 ELSE save_faiss_index(w1)

RebuildFaissCommand ==
    /\ \E w \in {rebuild_faiss(Cli)} :
          /\ disk' = w.disk
          /\ last' = Observe("rebuild_faiss", 0, 0, FALSE, Cli, w)
    /\ UNCHANGED <<rel, graph, eng, now, boot, runs, thr, probe>>

BootOf(d) ==
    [model_missing |-> IsNone(d.model_pt) \/ IsNone(d.metadata_pkl),
     index_missing |-> IsNone(d.faiss_bin) \/ IsNone(d.video_ids_pkl),
     served |-> FALSE]

\* The serving process is started again: a new engine is constructed.
Restart ==
    /\ eng' = EngineInit(disk)
    /\ boot' = BootOf(disk)
    /\ last' = [NoLast EXCEPT !.op = "start"]
    /\ UNCHANGED <<rel, graph, disk, now, runs, thr, probe>>

\* A step of the clock that takes a just-trained model past the age limit.
TickDays == StaleDays + 1

Tick ==
    /\ now + TickDays <= MaxNow
    /\ now' = now + TickDays
    /\ last' = NoLast
    /\ UNCHANGED <<rel, graph, disk, eng, boot, runs, thr, probe>>

\* ------------------------------------------------- request threads
\* Two request threads of the serving process run get_recommendations on the
\* one engine object. A step is a stretch of the method between two accesses
\* to the engine's shared fields (faiss_index, video_ids) or to the stores.
\* pc is where the thread stands, back where it continues after
\* _build_faiss_index; emb, vecs and indices are its locals; seen_index and
\* seen_ids are what its search and its result loop read.
Threads == {1, 2}

IdleThread ==
    [pc |-> "idle", u |-> 0, limit |-> 0, tie |-> TRUE, back |-> "idle",
     emb |-> None, vecs |-> <<>>, indices |-> <<>>,
     seen_index |-> None, seen_ids |-> <<>>, obs |-> NewObs]

At(i, label) == thr[i].pc = label

Goto(i, label) == thr' = [thr EXCEPT ![i].pc = label]

Fail(i) == thr' = [thr EXCEPT ![i].pc = "done", ![i].obs.err = TRUE]

\* The request arrives (views.get_recommendations).
ThrStart(i, u, limit, tie) ==
    /\ At(i, "idle")
    /\ thr' = [thr EXCEPT ![i] = [IdleThread EXCEPT !.pc = "g_check", !.u = u,
                                                    !.limit = limit, !.tie = tie]]
    /\ UNCHANGED <<rel, graph, disk, eng, now, boot, last, runs, probe>>

\* get_recommendations, line 680: if self.faiss_index is None
ThrCheckIndex(i) ==
    /\ At(i, "g_check")
    /\ Goto(i, IF IsNone(eng.faiss_index) THEN "e_check" ELSE "fetch")
    /\ UNCHANGED <<rel, graph, disk, eng, now, boot, last, runs, probe>>

\* ensure_model_trained with a caller that finds another caller between its
\* staleness check and the end of its save taking the branch of a fresh model.
ThrEnsureUnlessTraining(i) ==
    /\ At(i, "e_check")
    /\ IF /\ check_model_needs_training(Here)
          /\ \A j \in Threads \ {i} :
                ~(At(j, "t_train") \/ At(j, "t_save") \/ thr[j].back = "t_save")
       THEN Goto(i, "t_train")
       ELSE IF IsNone(eng.faiss_index)
            THEN thr' = [thr EXCEPT ![i].pc = "b_clear", ![i].back = "fetch"]
            ELSE Goto(i, "fetch")
    /\ UNCHANGED <<rel, graph, disk, eng, now, boot, last, runs, probe>>

\* ensure_model_trained, lines 534-538
ThrEnsure(i) ==
    /\ At(i, "e_check")
    /\ IF check_model_needs_training(Here)
       THEN Goto(i, "t_train")
       ELSE IF IsNone(eng.faiss_index)
            THEN thr' = [thr EXCEPT ![i].pc = "b_clear", ![i].back = "fetch"]
            ELSE Goto(i, "fetch")
    /\ UNCHANGED <<rel, graph, disk, eng, now, boot, last, runs, probe>>

\* train_gnn_and_update_embeddings up to the call of _build_faiss_index
\* (lines 542-624): the epochs, then the embeddings written to the graph.
ThrTrain(i) ==
    /\ At(i, "t_train")
    /\ runs < MaxTrainRuns
    /\ \E w \in {store_embeddings(train_epochs(Here, DefaultEpochs, DefaultHiddenDim))} :
          /\ eng' = w.eng
          /\ graph' = w.graph
          /\ runs' = w.runs
    /\ thr' = [thr EXCEPT ![i].pc = "b_clear", ![i].back = "t_save",
                          ![i].obs.trained = @ + 1]
    /\ UNCHANGED <<rel, disk, now, boot, last, probe>>

\* _build_faiss_index, line 651: self.video_ids = []
ThrBuildClear(i) ==
    /\ At(i, "b_clear")
    /\ eng' = [eng EXCEPT !.video_ids = <<>>]
    /\ Goto(i, "b_read")
    /\ UNCHANGED <<rel, graph, disk, now, boot, last, runs, probe>>

\* _build_faiss_index, lines 654-669: the rows are read, each id appended to
\* self.video_ids; no row ends the call; rows of unequal length raise.
ThrBuildRead(i) ==
    /\ At(i, "b_read")
    /\ \E rows \in {EmbeddedVideos(graph)} :
          /\ eng' = [eng EXCEPT !.video_ids = @ \o rows]
          /\ IF rows = <<>> THEN Goto(i, thr[i].back)
             ELSE IF Cardinality(DimsOf(graph, rows)) > 1 THEN Fail(i)
             ELSE thr' = [thr EXCEPT ![i].pc = "b_new",
                                     ![i].vecs = VectorsOf(graph, rows),
                                     ![i].emb = graph.vemb[rows[1]]]
    /\ UNCHANGED <<rel, graph, disk, now, boot, last, runs, probe>>

\* _build_faiss_index, line 672: self.faiss_index = faiss.IndexFlatIP(dimension)
ThrBuildNew(i) ==
    /\ At(i, "b_new")
    /\ eng' = [eng EXCEPT !.faiss_index = Some(IndexFlatIP(Val(thr[i].emb).dim))]
    /\ Goto(i, "b_add")
    /\ UNCHANGED <<rel, graph, disk, now, boot, last, runs, probe>>

\* _build_faiss_index, line 673: self.faiss_index.add(video_embeddings), on
\* the index the field holds now.
ThrBuildAdd(i) ==
    /\ At(i, "b_add")
    /\ IF Val(eng.faiss_index).d # Val(thr[i].emb).dim
       THEN Fail(i) /\ UNCHANGED eng
       ELSE /\ eng' = [eng EXCEPT !.faiss_index = Some(IndexAdd(Val(@), thr[i].vecs))]
            /\ thr' = [thr EXCEPT ![i].pc = thr[i].back, ![i].obs.rebuilt = @ + 1]
    /\ UNCHANGED <<rel, graph, disk, now, boot, last, runs, probe>>

\* train_gnn_and_update_embeddings, lines 560-561: _save_model, _save_faiss_index
ThrSave(i) ==
    /\ At(i, "t_save")
    /\ \E w \in {save_faiss_index(save_model(Here))} :
          /\ eng' = w.eng
          /\ disk' = w.disk
    /\ Goto(i, "fetch")
    /\ UNCHANGED <<rel, graph, now, boot, last, runs, probe>>

\* get_recommendations, lines 683-699: the user's embedding is fetched; none
\* gives the popularity list; then the index is built if the field is None.
ThrFetch(i) ==
    /\ At(i, "fetch")
    /\ IF ~HasEmbedding(graph, thr[i].u)
       THEN thr' = [thr EXCEPT ![i].pc = "done", ![i].obs.fallback = TRUE,
                               ![i].obs.ret = get_popular_videos(graph, thr[i].limit,
                                                                 thr[i].tie)]
       ELSE IF IsNone(eng.faiss_index)
            THEN thr' = [thr EXCEPT ![i].pc = "b_clear", ![i].back = "search",
                                    ![i].emb = graph.uemb[thr[i].u]]
            ELSE thr' = [thr EXCEPT ![i].pc = "search",
                                    ![i].emb = graph.uemb[thr[i].u]]
    /\ UNCHANGED <<rel, graph, disk, eng, now, boot, last, runs, probe>>

\* get_recommendations, line 701: self.faiss_index.search(user_embedding, limit * 2)
ThrSearch(i) ==
    /\ At(i, "search")
    /\ IF IsNone(eng.faiss_index) THEN Fail(i)
       ELSE IF Val(eng.faiss_index).d # Val(thr[i].emb).dim THEN Fail(i)
       ELSE thr' = [thr EXCEPT
                       ![i].pc = "filter",
                       ![i].seen_index = eng.faiss_index,
                       ![i].obs.searched = TRUE,
                       ![i].indices = faiss_search(Val(eng.faiss_index),
                                                   Val(thr[i].emb).val,
                                                   2 * thr[i].limit)]
    /\ UNCHANGED <<rel, graph, disk, eng, now, boot, last, runs, probe>>

\* get_recommendations, lines 704-720: the watched set, then the loop over
\* the positions, which reads self.video_ids.
ThrFilter(i) ==
    /\ At(i, "filter")
    /\ \E r \in {FilterLoop(thr[i].indices, 1, eng.video_ids,
                            WatchedBy(graph, thr[i].u), thr[i].limit, <<>>)} :
          thr' = [thr EXCEPT ![i].pc = "done", ![i].seen_ids = eng.video_ids,
                             ![i].obs.err = r.err, ![i].obs.ret = r.recs]
    /\ UNCHANGED <<rel, graph, disk, eng, now, boot, last, runs, probe>>

\* The response is sent; the thread takes the next request.
ThrFinish(i) ==
    /\ At(i, "done")
    /\ thr' = [thr EXCEPT ![i] = IdleThread]
    /\ UNCHANGED <<rel, graph, disk, eng, now, boot, last, runs, probe>>

NoThreads == <<>>
NoProbe == <<>>

AdminUser == 1

\* setup_script.main: the categories and the superuser are created (the
\* post_save receiver puts the user into the graph), then the categories are
\* synced.
SetupDone ==
    LET s1 == [rel |-> [RelEmpty EXCEPT !.users = {AdminUser}], graph |-> GraphEmpty]
    IN sync_categories_to_neo4j(sync_user_to_neo4j(s1, AdminUser))

\* After setup_script.main; the serving process has been constructed from an
\* empty model directory.
Init ==
    /\ rel = SetupDone.rel
    /\ graph = SetupDone.graph
    /\ disk = DiskEmpty
    /\ eng = EngineInit(DiskEmpty)
    /\ now = 0
    /\ boot = BootOf(DiskEmpty)
    /\ last = NoLast
    /\ runs = 0
    /\ thr = NoThreads
    /\ probe = NoProbe

\* The serving process: API requests, the engine's lazy training, restarts
\* of the process and the passing of time.
Next ==
    \/ \E u \in Users : Register(u)
    \/ \E v \in Videos : CreateVideo(v, AdminUser, {})
    \/ \E u \in Users, v \in Videos : Watch(u, v, DefaultWatchTime)
    \/ \E u \in Users, l \in 1..MaxLimit, tie \in BOOLEAN : GetRecommendations(u, l, tie)
    \/ \E f \in BOOLEAN : EnsureModelTrained(f)
    \/ Restart
    \/ Tick

Spec == Init /\ [][Next]_vars

\* The serving process together with the management commands, which run in
\* processes of their own against the same graph store and model directory.
NextCli ==
    \/ \E u \in Users : Register(u)
    \/ \E v \in Videos : CreateVideo(v, AdminUser, {})
    \/ \E u \in Users, l \in 1..MaxLimit, tie \in BOOLEAN : GetRecommendations(u, l, tie)
    \/ \E h \in HiddenDims, f \in BOOLEAN :
            TrainCommand(DefaultEpochs, h, f, FALSE)
    \/ RebuildFaissCommand

SpecCli == Init /\ [][NextCli]_vars

\* The relational source and the graph store: the views that write both, and
\* the full sync command.
NextSync ==
    \/ \E u \in Users : Register(u)
    \/ \E v \in Videos, cs \in SUBSET Cats : CreateVideo(v, AdminUser, cs)
    \/ \E u \in Users, v \in Videos : Watch(u, v, DefaultWatchTime)
    \/ \E u \in Users, v \in Videos : Like(u, v)
    \/ SyncCommand

SpecSync == Init /\ [][NextSync]_vars

InitConc ==
    /\ rel = SetupDone.rel
    /\ graph = SetupDone.graph
    /\ disk = DiskEmpty
    /\ eng = EngineInit(DiskEmpty)
    /\ now = 0
    /\ boot = BootOf(DiskEmpty)
    /\ last = NoLast
    /\ runs = 0
    /\ thr = [i \in Threads |-> IdleThread]
    /\ probe = NoProbe

\* Two request threads of the serving process, and videos being created.
NextConc ==
    \/ \E v \in Videos : CreateVideo(v, AdminUser, {})
    \/ \E i \in Threads, u \in Users, l \in 1..MaxLimit : ThrStart(i, u, l, TRUE)
    \/ \E i \in Threads : ThrCheckIndex(i)
    \/ \E i \in Threads : ThrEnsure(i)
    \/ \E i \in Threads : ThrTrain(i)
    \/ \E i \in Threads : ThrBuildClear(i)
    \/ \E i \in Threads : ThrBuildRead(i)
    \/ \E i \in Threads : ThrBuildNew(i)
    \/ \E i \in Threads : ThrBuildAdd(i)
    \/ \E i \in Threads : ThrSave(i)
    \/ \E i \in Threads : ThrFetch(i)
    \/ \E i \in Threads : ThrSearch(i)
    \/ \E i \in Threads : ThrFilter(i)
    \/ \E i \in Threads : ThrFinish(i)

SpecConc == InitConc /\ [][NextConc]_vars

\* Two request threads that serve the first user, and videos being created.
NextRace ==
    \/ \E v \in Videos : CreateVideo(v, AdminUser, {})
    \/ \E i \in Threads : ThrStart(i, AdminUser, 1, TRUE)
    \/ \E i \in Threads : ThrCheckIndex(i)
    \/ \E i \in Threads : ThrEnsure(i)
    \/ \E i \in Threads : ThrTrain(i)
    \/ \E i \in Threads : ThrBuildClear(i)
    \/ \E i \in Threads : ThrBuildRead(i)
    \/ \E i \in Threads : ThrBuildNew(i)
    \/ \E i \in Threads : ThrBuildAdd(i)
    \/ \E i \in Threads : ThrSave(i)
    \/ \E i \in Threads : ThrFetch(i)
    \/ \E i \in Threads : ThrSearch(i)
    \/ \E i \in Threads : ThrFilter(i)
    \/ \E i \in Threads : ThrFinish(i)

SpecRace == InitConc /\ [][NextRace]_vars

\* check_model_needs_training on its own: what it reads (whether a model is
\* held, the metadata's last_trained, the clock, the node counts of the graph
\* and the sizes of the loaded mappings) is drawn from the sets below.
ProbeCounts == (0..MaxProbeCount) \cup {100, 120, 121}
ProbeDays == {0, StaleDays, StaleDays + 1}

ProbeInputs ==
    [hasModel : BOOLEAN, lastTrained : {None, Some(0)}, now : ProbeDays,
     cu : ProbeCounts, cv : ProbeCounts, tu : ProbeCounts, tv : ProbeCounts,
     done : {FALSE}, result : {FALSE}]

InitStale ==
    /\ rel = SetupDone.rel
    /\ graph = SetupDone.graph
    /\ disk = DiskEmpty
    /\ eng = EngineInit(DiskEmpty)
    /\ now = 0
    /\ boot = BootOf(DiskEmpty)
    /\ last = NoLast
    /\ runs = 0
    /\ thr = NoThreads
    /\ probe \in {Some(p) : p \in ProbeInputs}

CheckModelNeedsTraining ==
    /\ ~IsNone(probe)
    /\ ~Val(probe).done
    /\ \E p \in {Val(probe)} :
          probe' = Some([p EXCEPT
                            !.done = TRUE,
                            !.result = NeedsTraining(p.hasModel, p.lastTrained, p.now,
                                                     p.cu, p.cv, p.tu, p.tv)])
    /\ UNCHANGED <<rel, graph, disk, eng, now, boot, last, runs, thr>>

SpecStale == InitStale /\ [][CheckModelNeedsTraining]_vars

\* Requests against a growing catalogue, within one run of the serving process.
NextFallback ==
    \/ \E u \in Users : Register(u)
    \/ \E v \in Videos : CreateVideo(v, AdminUser, {})
    \/ \E u \in Users, v \in Videos : Watch(u, v, DefaultWatchTime)
    \/ \E u \in Users, l \in 1..MaxLimit, tie \in BOOLEAN : GetRecommendations(u, l, tie)

SpecFallback == Init /\ [][NextFallback]_vars

\* Calls of ensure_model_trained as the catalogue grows and time passes.
NextEnsure ==
    \/ \E u \in Users : Register(u)
    \/ \E v \in Videos : CreateVideo(v, AdminUser, {})
    \/ \E f \in BOOLEAN : EnsureModelTrained(f)
    \/ Tick

SpecEnsure == Init /\ [][NextEnsure]_vars

\* Videos whose categories are edited after creation, and the two forms of
\* the sync command that compute the similarity edges.
NextSim ==
    \/ \E v \in Videos, cs \in SUBSET Cats : CreateVideo(v, AdminUser, cs)
    \/ \E v \in Videos, cs \in SUBSET Cats : UpdateVideo(v, cs)
    \/ SyncCommand
    \/ ComputeSimilaritiesCommand

SpecSim == Init /\ [][NextSim]_vars

\* The category list given to video v where the lists are not the subject:
\* the lists of two videos overlap and differ.
CatsUpTo(v) == {c \in Cats : c <= v}

\* Watch events: videos with categories, watches with the weights a client
\* sends, rows deleted in the admin and watched again later, the full sync.
NextWatch ==
    \/ \E v \in Videos : CreateVideo(v, AdminUser, CatsUpTo(v))
    \/ \E u \in Users, v \in Videos, wt \in WatchTimes : Watch(u, v, wt)
    \/ \E u \in Users, v \in Videos : AdminDeleteWatch(u, v)
    \/ SyncCommand
    \/ Tick

SpecWatch == Init /\ [][NextWatch]_vars

\* Watches and likes that feed the interest of a user in a category.
NextInterest ==
    \/ \E v \in Videos : CreateVideo(v, AdminUser, CatsUpTo(v))
    \/ \E u \in Users, v \in Videos, wt \in WatchTimes : Watch(u, v, wt)
    \/ \E u \in Users, v \in Videos : Like(u, v)
    \/ \E v \in Videos : UpdateVideo(v, CatsUpTo(v) \ {v})
    \/ SyncCommand

SpecInterest == Init /\ [][NextInterest]_vars

\* The views that create and delete rows, and the full sync. The first user
\* is the one that creates, watches and likes videos and that the others
\* follow.
NextGraph ==
    \/ \E u \in Users : Register(u)
    \/ \E v \in Videos : CreateVideo(v, AdminUser, CatsUpTo(v))
    \/ \E v \in Videos : Watch(AdminUser, v, DefaultWatchTime)
    \/ \E v \in Videos : Like(AdminUser, v)
    \/ \E v \in Videos : Unlike(AdminUser, v)
    \/ \E a \in Users : Follow(a, AdminUser)
    \/ \E a \in Users : Unfollow(a, AdminUser)
    \/ SyncCommand

SpecGraph == Init /\ [][NextGraph]_vars

\* A relational database that holds nu users and nv videos (video v made by
\* a user in turn, in the categories CatsUpTo(v)) and the given rows, none of
\* them synced: the receivers' syncs raised because the graph store was not
\* reachable when the rows were committed, so the aggregates are untouched.
RelWith(nu, nv, ws, ls, fs) ==
    [RelEmpty EXCEPT
        !.users = 1..nu,
        !.videos = 1..nv,
        !.creator = [v \in Videos |-> IF v <= nv THEN ((v - 1) % nu) + 1 ELSE 0],
        !.vcats = [v \in Videos |-> IF v <= nv THEN CatsUpTo(v) ELSE {}],
        !.watches = ws, !.likes = ls, !.follows = fs]

TrainInputs ==
    {RelWith(nu, nv, {}, {}, {}) : nu \in 1..NumUsers, nv \in 0..NumVideos}

\* The graph store holds what setup_script.main put there; the relational
\* database is ahead of it.
InitTrain ==
    /\ rel \in TrainInputs
    /\ graph = SetupDone.graph
    /\ disk = DiskEmpty
    /\ eng = EngineInit(DiskEmpty)
    /\ now = 0
    /\ boot = BootOf(DiskEmpty)
    /\ last = NoLast
    /\ runs = 0
    /\ thr = NoThreads
    /\ probe = NoProbe

\* The train command with each of its options, the sync command, and time.
NextTrain ==
    \/ \E e \in EpochChoices, h \in HiddenDims, f \in BOOLEAN, b \in BOOLEAN :
            TrainCommand(e, h, f, b)
    \/ SyncCommand
    \/ Tick

SpecTrain == InitTrain /\ [][NextTrain]_vars

\* A populated relational database next to the graph store as setup_script.main
\* left it: watch rows by anyone, likes by the first user, follows of the
\* first user, all of them rows between existing users and videos.
InitBulk ==
    /\ \E nu \in 1..NumUsers, nv \in 0..NumVideos :
         \E ws \in SUBSET ((1..nu) \X (1..nv) \X {DefaultWatchTime} \X {0}),
            ls \in SUBSET ({AdminUser} \X (1..nv)),
            fs \in SUBSET (((1..nu) \ {AdminUser}) \X {AdminUser}) :
              /\ Cardinality(ws) <= MaxWatches
              /\ Cardinality(ls) <= MaxLikes
              /\ rel = RelWith(nu, nv, ws, ls, fs)
    /\ graph = SetupDone.graph
    /\ disk = DiskEmpty
    /\ eng = EngineInit(DiskEmpty)
    /\ now = 0
    /\ boot = BootOf(DiskEmpty)
    /\ last = NoLast
    /\ runs = 0
    /\ thr = NoThreads
    /\ probe = NoProbe

\* python manage.py sync_to_neo4j on such a database.
NextBulk == SyncCommand

SpecBulk == InitBulk /\ [][NextBulk]_vars

\* load_graph_from_neo4j up to the return of _get_all_nodes and the loop that
\* assigns the mappings (lines 406-414). probe holds the call's locals.
LoadReadNodes ==
    /\ probe = NoProbe
    /\ eng' = [eng EXCEPT !.node_mappings =
                   [user |-> SetToSeq(graph.users), video |-> SetToSeq(graph.videos),
                    category |-> SetToSeq(graph.cats),
                    parent_category |-> SetToSeq(graph.pcats)]]
    /\ probe' = [pc |-> "edges", edge_index |-> {}]
    /\ last' = NoLast
    /\ UNCHANGED <<rel, graph, disk, now, boot, runs, thr>>

\* load_graph_from_neo4j from _get_all_edges to the end (lines 416-442): the
\* edge lists are read from the graph as it is now and turned into index
\* pairs; self.data is assigned.
LoadReadEdges ==
    /\ probe # NoProbe
    /\ probe.pc = "edges"
    /\ LET nm == eng.node_mappings
           ws == {<<e[1], e[2]>> : e \in graph.watches}
       IN /\ probe' = [pc |-> "done",
                       edge_index |->
                           [watches |-> EdgeIndices(nm.user, nm.video, ws),
                            likes |-> EdgeIndices(nm.user, nm.video, graph.likes),
                            belongs_to |-> EdgeIndices(nm.video, nm.category,
                                                       graph.belongs_to),
                            created_by |-> EdgeIndices(nm.video, nm.user,
                                                       graph.created_by),
                            follows |-> EdgeIndices(nm.user, nm.user, graph.follows)]]
          /\ eng' = [eng EXCEPT !.data =
                         Some([users |-> Range(nm.user), videos |-> Range(nm.video),
                               cats |-> Range(nm.category),
                               pcats |-> Range(nm.parent_category),
                               watches |-> {e \in ws : e[1] \in Range(nm.user)
                                                       /\ e[2] \in Range(nm.video)}])]
    /\ last' = NoLast
    /\ UNCHANGED <<rel, graph, disk, now, boot, runs, thr>>

\* One load of the graph, in its two reads, while requests register users
\* and upload videos and the newest user watches and likes the newest video
\* and follows the first user.
NextLoad ==
    \/ \E u \in Users : Register(u)
    \/ \E v \in Videos : CreateVideo(v, AdminUser, CatsUpTo(v))
    \/ Watch(Cardinality(rel.users), Cardinality(rel.videos), DefaultWatchTime)
    \/ Like(Cardinality(rel.users), Cardinality(rel.videos))
    \/ Follow(Cardinality(rel.users), AdminUser)
    \/ LoadReadNodes
    \/ LoadReadEdges

SpecLoad == Init /\ [][NextLoad]_vars

\* The engine's training method called with each hidden dimension, between
\* registrations and uploads.
NextDirect ==
    \/ \E u \in Users : Register(u)
    \/ \E v \in Videos : CreateVideo(v, AdminUser, CatsUpTo(v))
    \/ \E e \in EpochChoices, h \in HiddenDims : TrainGnnAndUpdateEmbeddings(e, h)

SpecDirect == Init /\ [][NextDirect]_vars

\* Users register and upload; the first user follows and unfollows them and
\* asks for the following feed; that user and each video's creator watch.
NextFeed ==
    \/ \E u \in Users : Register(u)
    \/ \E v \in Videos, c \in Users \ {AdminUser} : CreateVideo(v, c, CatsUpTo(v))
    \/ \E v \in Videos : \E u \in {AdminUser, rel.creator[v]} :
            Watch(u, v, DefaultWatchTime)
    \/ \E b \in Users : Follow(AdminUser, b)
    \/ \E b \in Users : Unfollow(AdminUser, b)
    \/ \E l \in 1..MaxLimit, tie \in BOOLEAN : GetFollowingFeed(AdminUser, l, tie)

SpecFeed == Init /\ [][NextFeed]_vars

\* ================================================================== claims
\* What get_recommendations returns in a given state, for the comparison of
\* two engines.
Answer(w, u, limit, tie) ==
    LET w1 == get_recommendations([w EXCEPT !.tie = tie], u, limit)
    IN [err |-> w1.obs.err, ret |-> w1.obs.ret]

HereNext == World(rel', graph', disk', eng', now', runs')

\* The global popularity ranking truncated to limit: the most watched videos
\* that have a watch, most watched first, each once.
IsPopularityRanking(g, limit, ret) ==
    LET cand == {v \in g.videos : WatchCount(g, v) > 0}
    IN /\ Len(ret) = Min2(limit, Cardinality(cand))
       /\ Range(ret) \subseteq cand
       /\ \A i, j \in 1..Len(ret) :
            i < j => ret[i] # ret[j] /\ WatchCount(g, ret[i]) >= WatchCount(g, ret[j])
       /\ \A v \in cand \ Range(ret) :
            \A i \in 1..Len(ret) : WatchCount(g, ret[i]) >= WatchCount(g, v)

\* C1: the list returned by get_recommendations contains no video the
\* requesting user has a Watches edge to, on the index path and on the
\* popularity-fallback path.
C1_NoWatchedVideoReturned ==
    (last.op = "get_recommendations" /\ ~last.obs.err)
        => Range(last.obs.ret) \cap WatchedBy(graph, last.u) = {}

\* A start of the process that follows a completed training run of the
\* previous one: the new engine against the one that saved.
C3_ReloadStep ==
    (/\ last.op \in {"get_recommendations", "ensure_model_trained"}
     /\ last.obs.trained >= 1
     /\ ~last.obs.err
     /\ last'.op = "start")
        => /\ ~IsNone(eng'.model)
           /\ eng'.model = eng.model
           /\ eng'.model_metadata = eng.model_metadata
           /\ eng'.faiss_index = eng.faiss_index
           /\ eng'.video_ids = eng.video_ids
           /\ \A u \in Users, l \in 1..MaxLimit, tie \in BOOLEAN :
                Answer(HereNext, u, l, tie).ret = Answer(Here, u, l, tie).ret

\* C3: once a training run has completed and saved, a newly constructed
\* engine holds a non-null model with the same metadata, the same index and
\* the same video-id list, and answers every request as the saving one did.
C3_SaveReloadRoundTrip == [][C3_ReloadStep]_vars

C6_EnsureStep ==
    (last'.op = "ensure_model_trained" /\ ~last'.force)
        => /\ check_model_needs_training(Here) => last'.obs.trained = 1
           /\ (~check_model_needs_training(Here) /\ IsNone(eng.faiss_index))
                => /\ last'.obs.trained = 0
                   /\ eng'.model = eng.model
                   /\ eng'.model_metadata = eng.model_metadata
                   /\ eng'.node_mappings = eng.node_mappings
                   /\ graph' = graph
                   /\ disk'.model_pt = disk.model_pt
                   /\ disk'.metadata_pkl = disk.metadata_pkl
           /\ (~check_model_needs_training(Here) /\ ~IsNone(eng.faiss_index))
                => /\ last'.obs.trained = 0
                   /\ eng' = eng /\ graph' = graph /\ disk' = disk /\ rel' = rel

\* C6: ensure_model_trained without force runs a full training when the model
\* is stale; rebuilds the index only (weights, metadata, mappings and stored
\* embeddings unchanged) when it is not stale and no index is held; changes
\* nothing when it is not stale and an index is held.
C6_EnsureModelTrainedFrame == [][C6_EnsureStep]_vars

C6_Witness ==
    /\ last.op = "ensure_model_trained"
    /\ ~last.force
    /\ ~last.stale
    /\ ~last.hadIndex
    /\ last.obs.trained = 0
    /\ ~IsNone(eng.model)

\* C8: when the model artifacts or the index artifacts were missing at
\* process start, the first get_recommendations request runs a training
\* before it answers, and does not fail.
C8_FirstRequestTrains ==
    (/\ last.op = "get_recommendations"
     /\ last.first
     /\ (boot.model_missing \/ boot.index_missing))
        => (last.obs.trained >= 1 /\ ~last.obs.err)

\* A stored embedding that is not a vector of the length the engine's index
\* was built for.
MalformedFor(g, e, u) ==
    /\ HasEmbedding(g, u)
    /\ ~IsNone(e.faiss_index)
    /\ Val(g.uemb[u]).dim # Val(e.faiss_index).d

\* C7: a get_recommendations request for a user whose embedding is missing or
\* malformed never ends in an error and returns the popularity fallback.
C7_MissingOrMalformedFallsBack ==
    (/\ last.op = "get_recommendations"
     /\ (~HasEmbedding(graph, last.u) \/ MalformedFor(graph, eng, last.u)))
        => (~last.obs.err /\ last.obs.fallback)

\* A run of the full sync that directly follows another one.
C2_SecondSyncStep ==
    (last.op = "sync_to_neo4j" /\ last'.op = "sync_to_neo4j")
        => (graph' = graph /\ rel' = rel)

\* C2: a second run of bulk_sync_all_data_to_neo4j against unchanged
\* relational data leaves nodes, relationships and every property of the
\* graph, and the relational interest aggregate, as the first run left them.
C2_BulkSyncIdempotent == [][C2_SecondSyncStep]_vars

\* The four conditions of the staleness rule, on the inputs of a probe.
NoModelLoaded(p) == ~p.hasModel
OlderThanSevenDays(p) == ~IsNone(p.lastTrained) /\ p.now - Val(p.lastTrained) > 7
UsersOverTwentyPercent(p) == 5 * p.cu > 6 * p.tu
VideosOverTwentyPercent(p) == 5 * p.cv > 6 * p.tv

\* C5: check_model_needs_training is true exactly when no model is loaded, or
\* last_trained is more than 7 days before now, or the user count is strictly
\* more than 1.2 times the mapped users, or the video count strictly more
\* than 1.2 times the mapped videos; so it is false for a fresh model with
\* equal counts and at exactly 20% growth, and true at 21% growth of users.
C5_NeedsTrainingExactly ==
    (~IsNone(probe) /\ Val(probe).done) =>
        LET p == Val(probe)
            fresh == p.hasModel /\ ~OlderThanSevenDays(p)
        IN /\ p.result <=> \/ NoModelLoaded(p)
                           \/ OlderThanSevenDays(p)
                           \/ UsersOverTwentyPercent(p)
                           \/ VideosOverTwentyPercent(p)
           /\ (fresh /\ p.cu = p.tu /\ p.cv = p.tv) => ~p.result
           /\ (fresh /\ p.tu = 100 /\ p.cu = 120 /\ p.cv = p.tv) => ~p.result
           /\ (fresh /\ p.tu = 100 /\ p.cu = 121) => p.result

C5_Witness ==
    /\ ~IsNone(probe)
    /\ Val(probe).done
    /\ Val(probe).hasModel
    /\ Val(probe).lastTrained = Some(0) /\ Val(probe).now = 7
    /\ Val(probe).tu = 100 /\ Val(probe).cu = 121
    /\ Val(probe).cv = Val(probe).tv
    /\ Val(probe).result

\* The list has as many entries as the index has vectors, and the vector at
\* each position is the one computed for the video at that position.
Aligned(index, ids) ==
    /\ Len(index.vecs) = Len(ids)
    /\ \A i \in 1..Len(ids) : index.vecs[i].of = ids[i]

\* No thread stands inside _build_faiss_index, between its first write to the
\* list and its last write to the index.
NoBuildInProgress == \A i \in Threads : thr[i].pc \notin {"b_read", "b_new", "b_add"}

\* C9: the vector index and the video-id list are positionally aligned, in
\* memory and in the persisted artifacts, whenever no rebuild is under way.
C9_IndexAlignedWithIds ==
    NoBuildInProgress =>
        /\ ~IsNone(eng.faiss_index) => Aligned(Val(eng.faiss_index), eng.video_ids)
        /\ (~IsNone(disk.faiss_bin) /\ ~IsNone(disk.video_ids_pkl))
                => Aligned(Val(disk.faiss_bin), Val(disk.video_ids_pkl))

\* C10: a search that runs while another thread rebuilds the index reads a
\* complete (index, video-id list) pair, the old one or the new one: never a
\* cleared or partly filled list with an index, nor an index without its
\* vectors.
C10_SearchSeesCompletePair ==
    \A i \in Threads :
        (thr[i].pc = "done" /\ thr[i].obs.searched /\ ~IsNone(thr[i].seen_index))
            => /\ Len(Val(thr[i].seen_index).vecs) > 0
               /\ Aligned(Val(thr[i].seen_index), thr[i].seen_ids)

\* The SimilarTo edges between two videos, in either direction.
SimilarEdges(g, v1, v2) ==
    {e \in g.similar : {e[1], e[2]} = {v1, v2}}

\* |A \cap B| / |A \cup B| >= 0.30, false when the union is empty.
JaccardAtLeastThreshold(A, B) ==
    /\ A \cup B # {}
    /\ 10 * Cardinality(A \cap B) >= 3 * Cardinality(A \cup B)

\* C11: after compute_video_similarities, two distinct videos have a SimilarTo
\* edge exactly when the Jaccard overlap of their category lists is at least
\* 0.30, there is at most one edge per unordered pair, and its similarity is
\* that overlap.
C11_SimilarToIffOverlap ==
    (last.op \in {"sync_to_neo4j", "compute_similarities"}) =>
        \A v1, v2 \in graph.videos :
            v1 < v2 =>
                LET A == graph.vcats[v1]
                    B == graph.vcats[v2]
                    es == SimilarEdges(graph, v1, v2)
                IN /\ (es # {}) <=> JaccardAtLeastThreshold(A, B)
                   /\ Cardinality(es) <= 1
                   /\ \A e \in es :
                        e[3] * Cardinality(A \cup B) = e[4] * Cardinality(A \cap B)

\* The calls of sync_watch_to_neo4j for (u, v) that a step makes: two by the
\* watch view (the receiver's and the view's own), one per row by the full
\* sync, none by any other step.
WatchSyncCalls(u, v) ==
    IF last'.op = "sync_to_neo4j"
    THEN Cardinality({r \in rel.watches : r[1] = u /\ r[2] = v})
    ELSE IF \E r \in rel'.watches \ rel.watches : r[1] = u /\ r[2] = v
         THEN 2
         ELSE 0

RECURSIVE SumOver(_, _)
SumOver(f, S) ==
    IF S = {} THEN 0
    ELSE LET x == CHOOSE y \in S : TRUE IN f[x] + SumOver(f, S \ {x})

C12_WatchSyncStep ==
    LET calls == [p \in Users \X Videos |-> WatchSyncCalls(p[1], p[2])]
    IN /\ \A u \in graph'.users, v \in graph'.videos :
            calls[<<u, v>>] > 0 =>
                \E r \in rel'.watches :
                    /\ r[1] = u /\ r[2] = v
                    /\ {e \in graph'.watches : e[1] = u /\ e[2] = v} = {r}
       /\ \A u \in graph'.users, c \in graph'.cats :
            graph'.interested[<<u, c>>].count =
                graph.interested[<<u, c>>].count
                + SumOver([v \in Videos |-> calls[<<u, v>>]],
                          {v \in graph'.videos : c \in graph'.vcats[v]})

\* C12: after any sequence of sync_watch_to_neo4j calls for one (user, video)
\* whose nodes exist, there is exactly one Watches edge between them, carrying
\* the weight and timestamp of the last call, and each call has raised the
\* InterestedIn count of each of the video's categories by exactly one.
C12_OneWatchEdgeCountPerCall == [][C12_WatchSyncStep]_vars

C12_Witness ==
    \E e \in graph.watches :
        /\ e[4] > 0
        /\ e \in rel.watches
        /\ rel.views[e[2]] >= 2
        /\ \E c \in graph.vcats[e[2]] : graph.interested[<<e[1], c>>].count >= 4
        /\ Cardinality({x \in graph.watches : x[1] = e[1] /\ x[2] = e[2]}) = 1

\* A step seen from one InterestedIn edge: its score has not gone down, and
\* if the step synced a watch or a like of the user to a video of the
\* category, its count has gone up.
C13_InterestStep ==
    \A u \in graph.users, c \in graph.cats :
        LET old == graph.interested[<<u, c>>]
            new == graph'.interested[<<u, c>>]
            touched == \/ \E r \in rel'.watches \ rel.watches :
                               r[1] = u /\ c \in graph.vcats[r[2]]
                       \/ \E r \in rel'.likes \ rel.likes :
                               r[1] = u /\ c \in graph.vcats[r[2]]
        IN /\ old.count > 0 => new.score >= old.score
           /\ new.count >= old.count
           /\ touched => new.count > old.count

\* C13: over any sequence of watch and like syncs, the InterestedIn score of
\* a (user, category) never decreases from one state to the next and its count
\* strictly increases on every qualifying interaction, for every watch_time
\* the watch API accepts.
C13_InterestMonotone == [][C13_InterestStep]_vars

\* The endpoints of the relationships that carry properties.
WatchPairs(g) == {<<e[1], e[2]>> : e \in g.watches}
SimilarPairs(g) == {<<e[1], e[2]>> : e \in g.similar}
InterestPairs(g) == {p \in Users \X Cats : g.interested[p].count > 0}

C14_GraphStep ==
    /\ graph.users \subseteq graph'.users
    /\ graph.videos \subseteq graph'.videos
    /\ graph.cats \subseteq graph'.cats
    /\ graph.pcats \subseteq graph'.pcats
    /\ graph.created_by \subseteq graph'.created_by
    /\ graph.belongs_to \subseteq graph'.belongs_to
    /\ graph.parent_of \subseteq graph'.parent_of
    /\ graph.likes \subseteq graph'.likes
    /\ graph.follows \subseteq graph'.follows
    /\ WatchPairs(graph) \subseteq WatchPairs(graph')
    /\ SimilarPairs(graph) \subseteq SimilarPairs(graph')
    /\ InterestPairs(graph) \subseteq InterestPairs(graph')
    /\ \A f \in rel.follows \ rel'.follows :
            f \in graph.follows => f \in graph'.follows
    /\ \A l \in rel.likes \ rel'.likes :
            l \in graph.likes => l \in graph'.likes

\* C14: no engine operation and no API action removes a node or a
\* relationship from the graph; a Follows or Likes edge is still there after
\* the unfollow or unlike that deleted the relational row.
C14_GraphNeverShrinks == [][C14_GraphStep]_vars

C14_Witness ==
    /\ \E f \in graph.follows : f \notin rel.follows
    /\ \E l \in graph.likes : l \notin rel.likes

\* Every node of the snapshot the engine trained on carries the embedding the
\* held model gives it.
SnapshotEmbedded(g, e) ==
    LET m == Val(e.model)
        nm == e.node_mappings
    IN /\ \A u \in Range(nm.user) : g.uemb[u] = Emb(m.hidden_dim, UserVal(u, m.weights))
       /\ \A v \in Range(nm.video) : g.vemb[v] = Emb(m.hidden_dim, VideoVal(v, m.weights))
       /\ \A c \in Range(nm.category) : g.cemb[c] = Emb(m.hidden_dim, m.weights)
       /\ \A c \in Range(nm.parent_category) : g.pemb[c] = Emb(m.hidden_dim, m.weights)

\* The index holds exactly the videos that have an embedding, each with the
\* vector stored on its node now.
IndexOfStoredEmbeddings(g, e) ==
    /\ ~IsNone(e.faiss_index)
    /\ e.video_ids = EmbeddedVideos(g)
    /\ Val(e.faiss_index).vecs = VectorsOf(g, EmbeddedVideos(g))

\* The files hold the model, its metadata, the index and the id list.
AllSaved(d, e) ==
    /\ d.model_pt = e.model
    /\ d.metadata_pkl = e.model_metadata
    /\ d.faiss_bin = e.faiss_index
    /\ d.video_ids_pkl = Some(e.video_ids)

\* C15: when a training run has completed, every node of the snapshot has
\* this run's embedding, the index has been rebuilt from those embeddings and
\* holds exactly the videos that have one, and the model (with its metadata)
\* and the index have been saved: no step is skipped.
C15_CompletedRunDidEveryStep ==
    (/\ last.op \in {"ensure_model_trained", "get_recommendations"}
     /\ last.obs.trained >= 1
     /\ ~last.obs.err)
        => /\ ~IsNone(eng.model)
           /\ SnapshotEmbedded(graph, eng)
           /\ IndexOfStoredEmbeddings(graph, eng)
           /\ AllSaved(disk, eng)

\* C16: the epoch count of the metadata is cumulative: after a completed
\* training run of n epochs it is its value before the run plus n, for every
\* n, so over a sequence of runs it is the sum of the epochs run.
C16_TotalEpochsCumulative ==
    (/\ last.op \in {"train_gnn", "ensure_model_trained", "get_recommendations"}
     /\ last.obs.trained >= 1
     /\ ~last.obs.err)
        => last.total1 = last.total0 + last.obs.epochs

\* The ids of the k nearest indexed videos to user u's stored embedding, in
\* index rank order (all of them when fewer than k are indexed).
NearestIndexed(u, k) ==
    LET index == Val(eng.faiss_index)
        n == Len(index.vecs)
        ranked == RankPositions(index.vecs, Val(graph.uemb[u]).val, 0..(n - 1))
    IN [i \in 1..Min2(k, n) |-> eng.video_ids[ranked[i] + 1]]

Unwatched(ids, u) ==
    LET keep(v) == v \notin WatchedBy(graph, u)
    IN SelectSeq(ids, keep)

\* C17: for a user with a stored embedding, get_recommendations(user, limit)
\* returns the first limit entries of the 2*limit nearest indexed videos, in
\* index rank order, with the videos the user has watched deleted.
C17_RecommendationsAreNearestUnwatched ==
    (/\ last.op = "get_recommendations"
     /\ last.obs.searched
     /\ ~last.obs.err
     /\ Len(eng.video_ids) = Len(Val(eng.faiss_index).vecs))
        => last.obs.ret = Take(Unwatched(NearestIndexed(last.u, 2 * last.limit), last.u),
                               last.limit)

\* C18: get_recommendations_from_followed(user, limit) returns at most limit
\* videos, each created by a user the requesting user follows in the graph,
\* none watched by the requesting user, by descending number of WATCHES edges.
C18_FollowedFeed ==
    last.op = "get_following_feed" =>
        LET r == last.obs.ret
        IN /\ Len(r) <= last.limit
           /\ \A i \in 1..Len(r) :
                 /\ \E c \in graph.users : /\ <<last.u, c>> \in graph.follows
                                           /\ <<r[i], c>> \in graph.created_by
                 /\ r[i] \notin WatchedBy(graph, last.u)
           /\ \A i, j \in 1..Len(r) :
                 i < j => WatchCount(graph, r[i]) >= WatchCount(graph, r[j])

\* A feed of two videos with different counts, while a third party's watch
\* on one of them is in the graph.
C18_Witness ==
    /\ last.op = "get_following_feed"
    /\ Len(last.obs.ret) = 2
    /\ WatchCount(graph, last.obs.ret[1]) > WatchCount(graph, last.obs.ret[2])

\* C19: bulk_sync_all_data_to_neo4j upserts every user and video node before
\* it syncs the watch slice, the likes and the follows, and computes the
\* similarities last: after it every user and video has its node, every watch
\* of the slice, like and follow has its edge, and every pair of videos whose
\* synced category lists overlap enough has its SIMILAR_TO edge.
C19_BulkSyncDropsNothing ==
    last.op = "sync_to_neo4j" =>
        /\ rel.users \subseteq graph.users
        /\ rel.videos \subseteq graph.videos
        /\ WatchSlice(rel.watches) \subseteq graph.watches
        /\ rel.likes \subseteq graph.likes
        /\ rel.follows \subseteq graph.follows
        /\ \A a \in rel.videos, b \in rel.videos :
              (a < b /\ CatSimOk(rel.vcats[a], rel.vcats[b])) => <<a, b>> \in SimilarPairs(graph)

\* A sync that created watch, like and follow edges on nodes it created
\* itself, and a similarity edge between two of them.
C19_Witness ==
    /\ last.op = "sync_to_neo4j"
    /\ \E e \in graph.watches : e[1] \notin SetupDone.graph.users
                                /\ e[2] \notin SetupDone.graph.videos
    /\ \E l \in graph.likes : l[2] \notin SetupDone.graph.videos
    /\ \E f \in graph.follows : f[1] \notin SetupDone.graph.users
    /\ SimilarPairs(graph) # {}

C20_TrainStep ==
    last'.op = "train_gnn" =>
        LET ran == last'.obs.trained >= 1
            done == ran /\ ~last'.obs.err
        IN /\ ran <=> (last'.force \/ last'.stale)
           /\ ~ran => (graph' = graph /\ disk' = disk /\ rel' = rel)
           /\ done => /\ \A u \in graph.users : HasEmbedding(graph', u)
                      /\ \A v \in graph.videos : ~IsNone(graph'.vemb[v])
                      /\ \A u \in graph'.users \ graph.users : ~HasEmbedding(graph', u)
                      /\ \A v \in graph'.videos \ graph.videos : IsNone(graph'.vemb[v])
           /\ (done /\ last'.bulk) => /\ rel'.users \subseteq graph'.users
                                      /\ rel'.videos \subseteq graph'.videos
           /\ ~(done /\ last'.bulk) => /\ graph'.users = graph.users
                                       /\ graph'.videos = graph.videos
                                       /\ rel' = rel

C21_HiddenDimPerRun ==
    (last.op = "train_gnn_and_update_embeddings" /\ ~last.obs.err) =>
        /\ Val(eng.model).hidden_dim = last.hidden_dim
        /\ Val(eng.model_metadata).hidden_dim = last.hidden_dim
        /\ \A u \in Range(eng.node_mappings.user) \cap graph.users :
              Val(graph.uemb[u]).dim = last.hidden_dim
        /\ \A v \in Range(eng.node_mappings.video) \cap graph.videos :
              Val(graph.vemb[v]).dim = last.hidden_dim
        /\ ~IsNone(eng.faiss_index) => Val(eng.faiss_index).d = last.hidden_dim

C22_EnsureStep ==
    \A i \in Threads :
        /\ (At(i, "e_check") /\ thr'[i].pc # "e_check" /\ check_model_needs_training(Here))
             => thr'[i].pc = "t_train"
        /\ (At(i, "t_train") /\ thr'[i].pc # "t_train")
             => /\ runs' = runs + 1
                /\ \A u \in graph.users :
                      graph'.uemb[u] = Emb(Val(eng'.model).hidden_dim,
                                           UserVal(u, Val(eng'.model).weights))
        /\ (At(i, "t_save") /\ thr'[i].pc # "t_save")
             => disk'.model_pt = eng.model

C23_RunUsesFreshSnapshot ==
    (/\ last.op \in {"ensure_model_trained", "get_recommendations",
                     "train_gnn_and_update_embeddings"}
     /\ last.obs.trained >= 1
     /\ ~last.obs.err)
        => /\ \A u \in graph.users :
                u \in Range(eng.node_mappings.user) /\ HasEmbedding(graph, u)
           /\ \A v \in graph.videos :
                v \in Range(eng.node_mappings.video) /\ ~IsNone(graph.vemb[v])

InRange(pairs, nsrc, ndst) ==
    \A p \in pairs : p[1] \in 0..(nsrc - 1) /\ p[2] \in 0..(ndst - 1)

\* C24: a load whose edge read sees nodes and edges that were added after its
\* node read completes, and every edge of its snapshot has both endpoint
\* indices within 0..num_nodes-1 of its node type.
C24_LoadedEdgesInRange ==
    (probe # NoProbe /\ probe.pc = "done") =>
        LET nm == eng.node_mappings
            nu == Len(nm.user)
            nv == Len(nm.video)
            nc == Len(nm.category)
            ei == probe.edge_index
        IN /\ InRange(ei.watches, nu, nv)
           /\ InRange(ei.likes, nu, nv)
           /\ InRange(ei.belongs_to, nv, nc)
           /\ InRange(ei.created_by, nv, nu)
           /\ InRange(ei.follows, nu, nu)
           /\ ~IsNone(eng.data)

\* A completed load that kept an edge and dropped a watch, a like, a follow
\* and a CREATED_BY edge whose endpoints were added after its node read.
C24_Witness ==
    /\ probe # NoProbe
    /\ probe.pc = "done"
    /\ probe.edge_index.created_by # {}
    /\ \E e \in graph.watches : e[2] \notin Range(eng.node_mappings.video)
    /\ \E e \in graph.likes : e[1] \notin Range(eng.node_mappings.user)
    /\ \E e \in graph.follows : e[1] \notin Range(eng.node_mappings.user)
    /\ \E e \in graph.created_by : e[1] \notin Range(eng.node_mappings.video)
    /\ Val(eng.data).watches # {<<e[1], e[2]>> : e \in graph.watches}

\* C25: when ensure_model_trained has run a training because the model was
\* stale, check_model_needs_training is false right after it returns.
C25_RetrainingClearsStaleness ==
    (/\ last.op = "ensure_model_trained"
     /\ last.stale
     /\ last.obs.trained >= 1
     /\ ~last.obs.err)
        => ~check_model_needs_training(Here)

\* C26: the list returned by get_recommendations holds no video id twice.
C26_NoDuplicateRecommendation ==
    (last.op = "get_recommendations" /\ ~last.obs.err) =>
        \A i, j \in 1..Len(last.obs.ret) :
            i # j => last.obs.ret[i] # last.obs.ret[j]

\* C27: a get_recommendations request that goes on to the index search (its
\* user has a stored embedding at the fetch) has an index to search and ends
\* with a list, not with an error.
C27_SearchHasIndex ==
    (/\ last.op = "get_recommendations"
     /\ HasEmbedding(graph, last.u)
     /\ ~last.obs.fallback)
        => (~last.obs.err /\ last.obs.searched)

\* A step seen from one (user, category): a watch or like row created by the
\* step for a video of the category raised both counts by one and both
\* scores by the event's weight.
C28_SyncedOnceStep ==
    \A u \in rel.users, c \in Cats :
        LET ws == {r \in rel'.watches \ rel.watches : r[1] = u /\ c \in rel.vcats[r[2]]}
            ls == {r \in rel'.likes \ rel.likes : r[1] = u /\ c \in rel.vcats[r[2]]}
            weight == IF ws # {} THEN (CHOOSE r \in ws : TRUE)[3] ELSE LikeScore
        IN (Cardinality(ws) + Cardinality(ls) = 1 /\ last'.op = "none") =>
              /\ graph'.interested[<<u, c>>].count = graph.interested[<<u, c>>].count + 1
              /\ graph'.interested[<<u, c>>].score =
                     graph.interested[<<u, c>>].score + weight
              /\ rel'.interest[<<u, c>>].count = rel.interest[<<u, c>>].count + 1
              /\ rel'.interest[<<u, c>>].score = rel.interest[<<u, c>>].score + weight

\* C28: a watch or a like created through the API is synced exactly once: the
\* InterestedIn count and the relational interaction_count of each of the
\* video's categories rise by one and the scores by the event's weight.
C28_InteractionSyncedOnce == [][C28_SyncedOnceStep]_vars

\* C29: after any sequence of completed watch and like syncs, the graph's
\* InterestedIn (score, count) of every (user, category) equals the relational
\* UserCategoryInterest (score, interaction_count).
C29_DualWriteConsistent ==
    \A u \in Users, c \in Cats :
        /\ graph.interested[<<u, c>>].score = rel.interest[<<u, c>>].score
        /\ graph.interested[<<u, c>>].count = rel.interest[<<u, c>>].count

\* C30: after a completed compute_video_similarities every SimilarTo edge of
\* the graph joins two videos whose category lists, as the graph holds them
\* now, overlap by at least 0.30, and carries that overlap.
C30_SimilarEdgesCurrent ==
    (last.op \in {"sync_to_neo4j", "compute_similarities"}) =>
        \A e \in graph.similar :
            LET A == graph.vcats[e[1]]
                B == graph.vcats[e[2]]
            IN /\ JaccardAtLeastThreshold(A, B)
               /\ e[3] = Cardinality(A \cap B)
               /\ e[4] = Cardinality(A \cup B)

====
